---- MODULE Spec2Model ----
(***************************************************************************)
(* Model of the Dune API client of dune-cli (src/src/lib/client.rs and     *)
(* src/src/lib/types.rs): one invocation of one of the entry points        *)
(*   get_query_results,                                                    *)
(*   get_query_results_when_ready,                                         *)
(*   execute_query_and_get_results_when_ready,                             *)
(* running against a remote server whose answers are nondeterministic.     *)
(* Every await point of the Rust code (a sleep, an HTTP round trip with    *)
(* its decode) is one action.  The variables marked history record what    *)
(* the invocation did; the code does not read them.                        *)
(*                                                                         *)
(* Strings are sequences of one-character strings, Option<T> is a sequence *)
(* of length at most one (None == <<>>, Some(x) == <<x>>).                 *)
(***************************************************************************)
EXTENDS Integers, Sequences, FiniteSets, TLC

VARIABLES
    args,          \* the arguments of the invocation (never change)
    pc,            \* the position of the invocation in its code
    execution_id,  \* the id the poll loop and get_query_results work on
    has_finished,  \* the flag of the poll loop
    url_path,      \* get_query_results: the endpoint chosen from the id
    params,        \* get_query_results: the ResultsParams cursor
    rows,          \* get_query_results: the accumulated rows
    metadata,      \* get_query_results: Option, the metadata kept
    next_offset,   \* get_query_results: Option<u64> of the last response
    result,        \* Option<Result<QueryResult, DuneError>>: the return value
    server_total,  \* server: the result set holds rows 1..server_total
    server_page,   \* server: the most rows it puts in one page
    submit_reply,  \* history: Option, what execute_query returned
    sleeps,        \* history: the duration of every sleep, oldest first
    polls,         \* history: the number of status fetches made
    nonterminal,   \* history: how many of them returned Pending or Executing
    last_status,   \* history: Option, what the last status fetch returned
    requests,      \* history: every results request sent, oldest first
    pages,         \* history: what was read of the answer to each of them
    late_unfinished, \* history: a page after the first one decoded with
                   \*          is_execution_finished = false
    polled_id,     \* history: Option, the id the last status fetch asked for
    api_key,       \* DuneClient.api_key (never changes)
    encode_failed, \* history: the last url_encode of the run returned Err
    filter,        \* a QueryResultsFilter: the filter strings added so far
    filter_param,  \* Option: what to_option_string returned for filter
    json_body,     \* Option: a response body handed to a decoder
    decoded,       \* Option: what the decoder of its shape returned
    records,       \* save_json_as_csv: the records given
    wtr,           \* save_json_as_csv: the records written to the file
    csv_result,    \* save_json_as_csv: Option, what it returned
    other          \* a second invocation, while it is not the one running

vars == << args, pc, execution_id, has_finished, url_path, params, rows,
           metadata, next_offset, result, server_total, server_page,
           submit_reply, sleeps, polls, nonterminal, last_status,
           requests, pages, late_unfinished, polled_id, api_key,
           encode_failed,
           filter, filter_param, json_body, decoded,
           records, wtr, csv_result, other >>

\* the variables of the types of types.rs, which no client call changes
typeVars == << filter, filter_param, json_body, decoded >>

\* the variables of save_json_as_csv (utils.rs)
csvVars == << records, wtr, csv_result >>

\* save_json_as_csv not called
CsvIdle == records = << >> /\ wtr = << >> /\ csv_result = << >>

-----------------------------------------------------------------------------
(* Bounds of the model. *)

\* the poll loop is explored up to this many sleeps
MaxPolls == 2
\* a pagination run is explored up to this many results requests
MaxRequests == 3
\* the remote result set holds at most this many rows
MaxRows == 2
\* the server puts at most this many rows in one page
MaxPage == 2

-----------------------------------------------------------------------------
(* Option<T> *)

None == << >>
Some(x) == << x >>
is_some(o) == o # None
unwrap(o) == o[1]
unwrap_or(o, d) == IF o = None THEN d ELSE o[1]

Min(a, b) == IF a < b THEN a ELSE b

-----------------------------------------------------------------------------
(* Identifier strings and id.parse::<u64>() (client.rs:101).               *)
(* A u64 is kept as its canonical decimal digits (no sign, no leading      *)
(* zero), which is also what format!("{}", query_id) prints, so that the   *)
(* full 64-bit range is covered without 64-bit arithmetic.                 *)

Digits == { "0", "1", "2", "3", "4", "5", "6", "7", "8", "9" }

DigitVal(c) ==
    CASE c = "0" -> 0 [] c = "1" -> 1 [] c = "2" -> 2 [] c = "3" -> 3
      [] c = "4" -> 4 [] c = "5" -> 5 [] c = "6" -> 6 [] c = "7" -> 7
      [] c = "8" -> 8 [] c = "9" -> 9

\* u64::MAX = 18446744073709551615
U64MaxDigits ==
    << "1", "8", "4", "4", "6", "7", "4", "4", "0", "7",
       "3", "7", "0", "9", "5", "5", "1", "6", "1", "5" >>

RECURSIVE StripZeros(_)
StripZeros(s) ==
    IF Len(s) > 1 /\ s[1] = "0" THEN StripZeros(Tail(s)) ELSE s

\* a <= b for two digit strings of the same length
RECURSIVE DigitsLeq(_, _)
DigitsLeq(a, b) ==
    IF a = << >> THEN TRUE
    ELSE IF DigitVal(a[1]) < DigitVal(b[1]) THEN TRUE
    ELSE IF DigitVal(a[1]) > DigitVal(b[1]) THEN FALSE
    ELSE DigitsLeq(Tail(a), Tail(b))

FitsU64(d) ==
    \/ Len(d) < Len(U64MaxDigits)
    \/ Len(d) = Len(U64MaxDigits) /\ DigitsLeq(d, U64MaxDigits)

\* str::parse::<u64>: an optional leading "+", then one or more decimal
\* digits, the value at most u64::MAX.  Err is None, Ok(n) is Some(n).
parse_u64(id) ==
    LET body == IF Len(id) > 0 /\ id[1] = "+" THEN Tail(id) ELSE id
    IN  IF body = << >> \/ \E i \in 1..Len(body) : body[i] \notin Digits
        THEN None
        ELSE IF FitsU64(StripZeros(body)) THEN Some(StripZeros(body)) ELSE None

\* The identifier strings the invocations are given (and the execution ids
\* the submit response may carry).
Ids ==
    { << "0", "1", "H", "X" >>,             \* an ULID-like execution id
      << "4", "2" >>,                       \* a query id
      << "0", "0", "7" >>,                  \* digits with leading zeros
      << "+", "7" >>,                       \* a signed number
      << "-", "1" >>,                       \* a negative number
      << >>,                                \* the empty string
      U64MaxDigits,                         \* u64::MAX
      << "1", "8", "4", "4", "6", "7", "4", "4", "0", "7",
         "3", "7", "0", "9", "5", "5", "1", "6", "1", "6" >>  \* u64::MAX + 1
    }

-----------------------------------------------------------------------------
(* ExecutionStatus (types.rs:97-107) and DuneError (client.rs:7-14).       *)

ExecutionStatus ==
    { "QueryStatePending", "QueryStateExecuting", "QueryStateFailed",
      "QueryStateCompleted", "QueryStateCancelled", "QueryStateExpired",
      "QueryStateCompletedPartial" }

RequestError == [ kind |-> "RequestError" ]
ParseError == [ kind |-> "ParseError" ]
EncodingError == [ kind |-> "EncodingError" ]
QueryNotFinished == [ kind |-> "QueryNotFinished" ]
QueryStatusError(status) == [ kind |-> "QueryStatusError", status |-> status ]

\* Result<T, DuneError>
Ok(v) == [ ok |-> TRUE, val |-> v ]
Err(e) == [ ok |-> FALSE, err |-> e ]

-----------------------------------------------------------------------------
(* Response decoding (types.rs).                                           *)

\* deserialize_status: the seven wire tokens; anything else is an error
\* (None).
deserialize_status(s) ==
    CASE s = "QUERY_STATE_PENDING" -> Some("QueryStatePending")
      [] s = "QUERY_STATE_EXECUTING" -> Some("QueryStateExecuting")
      [] s = "QUERY_STATE_FAILED" -> Some("QueryStateFailed")
      [] s = "QUERY_STATE_COMPLETED" -> Some("QueryStateCompleted")
      [] s = "QUERY_STATE_CANCELLED" -> Some("QueryStateCancelled")
      [] s = "QUERY_STATE_EXPIRED" -> Some("QueryStateExpired")
      [] s = "QUERY_STATE_COMPLETED_PARTIAL" -> Some("QueryStateCompletedPartial")
      [] OTHER -> None

\* The state tokens a body may carry: the seven documented ones and one
\* the client does not know.
Tokens ==
    { "QUERY_STATE_PENDING", "QUERY_STATE_EXECUTING", "QUERY_STATE_FAILED",
      "QUERY_STATE_COMPLETED", "QUERY_STATE_CANCELLED", "QUERY_STATE_EXPIRED",
      "QUERY_STATE_COMPLETED_PARTIAL", "QUERY_STATE_UNKNOWN" }

\* An HTTP exchange ends in a transport failure or in a body.  A body is a
\* JSON object: a record whose domain is the fields present (with "sent",
\* which tells the body from the failure).
TransportFailure == [ sent |-> FALSE ]

\* the fields without Option of ExecuteQueryResponse (types.rs:71-76),
\* ExecutionStatusResponse (types.rs:79-87), QueryResultsResponse
\* (types.rs:248-256): serde fails when one of them is missing
ExecuteRequired == { "execution_id", "state" }
StatusRequired == { "execution_id", "query_id", "is_execution_finished", "state" }
ResultsRequired ==
    { "state", "execution_id", "is_execution_finished", "query_id", "result" }

\* an Option field of a body: None when the field is missing
optional_field(body, key) ==
    IF key \in DOMAIN body THEN Some(body[key]) ELSE None

\* as decode_status_response, result_metadata being required too
decode_status_response_metadata_required(body) ==
    IF /\ (StatusRequired \cup { "result_metadata" }) \subseteq DOMAIN body
       /\ is_some(deserialize_status(body.state))
    THEN Some([ execution_id |-> body.execution_id,
                query_id |-> body.query_id,
                is_execution_finished |-> body.is_execution_finished,
                result_metadata |-> optional_field(body, "result_metadata"),
                status |-> unwrap(deserialize_status(body.state)) ])
    ELSE None

\* response.json::<ExecutionStatusResponse>(): Some(decoded) or None
decode_status_response(body) ==
    IF /\ StatusRequired \subseteq DOMAIN body
       /\ is_some(deserialize_status(body.state))
    THEN Some([ execution_id |-> body.execution_id,
                query_id |-> body.query_id,
                is_execution_finished |-> body.is_execution_finished,
                result_metadata |-> optional_field(body, "result_metadata"),
                status |-> unwrap(deserialize_status(body.state)) ])
    ELSE None

\* response.json::<ExecuteQueryResponse>(): Some(decoded) or None
decode_execute_response(body) ==
    IF /\ ExecuteRequired \subseteq DOMAIN body
       /\ is_some(deserialize_status(body.state))
    THEN Some([ execution_id |-> body.execution_id,
                status |-> unwrap(deserialize_status(body.state)) ])
    ELSE None

\* response.json::<QueryResultsResponse>(): Some(decoded) or None.  The state
\* of this shape is a plain String: it is kept as it came, whatever it says.
decode_results_response(body) ==
    IF ResultsRequired \subseteq DOMAIN body
    THEN Some([ state |-> body.state,
                execution_id |-> body.execution_id,
                is_execution_finished |-> body.is_execution_finished,
                next_offset |-> optional_field(body, "next_offset"),
                query_id |-> body.query_id,
                result |-> body.result ])
    ELSE None

-----------------------------------------------------------------------------
(* ResultsParams (types.rs:156-246).                                       *)

PeekLimit == 10
FullLimit == 1000

\* as update_offset, the cursor left where it is
update_offset_stays(p, new_offset) == p

\* as update_offset, the limit set to what is left of a page of 1000
update_offset_and_limit(p, new_offset) ==
    [ p EXCEPT !.offset = new_offset,
               !.limit = IF new_offset < 1000 THEN 1000 - new_offset ELSE 1 ]

\* as update_offset, an offset that does not go forward not taken
update_offset_monotone(p, new_offset) ==
    IF new_offset > p.offset THEN [ p EXCEPT !.offset = new_offset ] ELSE p

update_offset(p, new_offset) == [ p EXCEPT !.offset = new_offset ]

get_offset(p) == p.offset

DigitChar(n) ==
    CASE n = 0 -> "0" [] n = 1 -> "1" [] n = 2 -> "2" [] n = 3 -> "3"
      [] n = 4 -> "4" [] n = 5 -> "5" [] n = 6 -> "6" [] n = 7 -> "7"
      [] n = 8 -> "8" [] n = 9 -> "9"

\* u64 as serde_urlencoded writes it: decimal
RECURSIVE ToDecimal(_)
ToDecimal(n) ==
    IF n < 10 THEN << DigitChar(n) >>
    ELSE ToDecimal(n \div 10) \o << DigitChar(n % 10) >>

BoolText(b) == IF b THEN << "t", "r", "u", "e" >>
               ELSE << "f", "a", "l", "s", "e" >>

\* serde_urlencoded::to_string of the params struct: the key=value pairs in
\* field order, a None field left out; a sequence value (columns) is not
\* supported by the encoder and makes it fail.  Err is None.
url_encode(p) ==
    IF is_some(p.columns)
    THEN None
    ELSE Some(
        << << (IF p.kind = "Query" THEN "query_id" ELSE "execution_id"), p.id >>,
           << "offset", ToDecimal(p.offset) >>,
           << "limit", ToDecimal(p.limit) >>,
           << "ignore_max_datapoints_per_request",
              BoolText(p.ignore_max_datapoints_per_request) >> >>
        \o (IF is_some(p.filters) THEN << << "filters", unwrap(p.filters) >> >>
            ELSE << >>))

\* url_encode returns a Result and both callers match on its Err.  With the
\* parameters get_query_results builds (columns: None) the encoder has no
\* value it cannot write; the Err the callers provide for is kept as an
\* outcome of the call, so that what they do with it is part of the model.
encode_outcomes(p) == { url_encode(p), None }

\* client.rs:100
page_limit(peak) == IF peak THEN PeekLimit ELSE FullLimit

\* client.rs:101-124: the endpoint and the first cursor, chosen from the id
results_target_always_execution(id, peak) ==
    [ url_path |-> [ endpoint |-> "v1/execution/{}/results", id |-> id ],
      params |-> [ kind |-> "Execution", id |-> id, offset |-> 0,
                   limit |-> page_limit(peak), columns |-> None,
                   ignore_max_datapoints_per_request |-> FALSE,
                   filters |-> None ] ]

results_target(id, peak) ==
    IF is_some(parse_u64(id))
    THEN [ url_path |-> [ endpoint |-> "v1/query/{}/results",
                          id |-> unwrap(parse_u64(id)) ],
           params |-> [ kind |-> "Query", id |-> unwrap(parse_u64(id)),
                        offset |-> 0, limit |-> page_limit(peak),
                        columns |-> None,
                        ignore_max_datapoints_per_request |-> FALSE,
                        filters |-> None ] ]
    ELSE [ url_path |-> [ endpoint |-> "v1/execution/{}/results", id |-> id ],
           params |-> [ kind |-> "Execution", id |-> id, offset |-> 0,
                        limit |-> page_limit(peak), columns |-> None,
                        ignore_max_datapoints_per_request |-> FALSE,
                        filters |-> None ] ]

-----------------------------------------------------------------------------
(* QueryResultsFilter (types.rs:133-154).                                  *)

\* the filters of one QueryResultsFilter are explored up to this many
MaxFilters == 3

\* the literal " AND " of to_option_string
AndSeparator == << " ", "A", "N", "D", " " >>

\* [String]::join (types.rs:152)
RECURSIVE join(_, _)
join(v, sep) ==
    IF v = << >> THEN << >>
    ELSE IF Len(v) = 1 THEN v[1]
    ELSE v[1] \o sep \o join(Tail(v), sep)

\* QueryResultsFilter::new (types.rs:137-139)
new_filter == << >>

\* QueryResultsFilter::add_filter (types.rs:141-145)
add_filter(self, f) == Append(self, f)

\* as to_option_string, the filters joined with "AND" without the blanks
to_option_string_no_blanks(self) ==
    IF self = << >> THEN None ELSE Some(join(self, << "A", "N", "D" >>))

\* QueryResultsFilter::to_option_string (types.rs:147-153)
to_option_string(self) ==
    IF self = << >> THEN None ELSE Some(join(self, AndSeparator))

\* the filter strings given to add_filter: the client does not look into
\* them, so one of the documented form, a bare word and the empty string
FilterStrings == { << "a", ">", "1" >>, << "b" >>, << >> }

-----------------------------------------------------------------------------
(* The remote server.  What it answers is its own choice; the model lets   *)
(* it answer anything a body of the expected shape can carry, and fail.    *)

\* the rows of the remote result set are numbered 1..server_total
ServerData == [ i \in 1..server_total |-> i ]

\* the rows the server puts in the page at this offset
ServerRows(offset, limit) ==
    SubSeq(ServerData, offset + 1,
           Min(offset + Min(limit, server_page), server_total))

\* a body of another shape: the JSON object without fields
EmptyObject == [ sent |-> TRUE ]

\* the answers to GET .../status
StatusReplies ==
    { TransportFailure, EmptyObject }
    \cup { [ sent |-> TRUE,
             execution_id |-> << "0", "1", "H", "X" >>,
             query_id |-> 42,
             is_execution_finished |->
                 t \notin { "QUERY_STATE_PENDING", "QUERY_STATE_EXECUTING" },
             state |-> t ] : t \in Tokens }

\* the execution ids a submit response may carry, and the ones the poll
\* entry is given: one that is no number and one that is all digits
ExecutionIds == { << "0", "1", "H", "X" >>, << "4", "2" >> }

\* the answers to POST .../execute
SubmitReplies ==
    { TransportFailure, EmptyObject }
    \cup [ sent : { TRUE }, execution_id : ExecutionIds, state : Tokens ]

\* the value of a key of a query string
QueryValue(query, key) ==
    query[CHOOSE i \in 1..Len(query) : query[i][1] = key][2]

RECURSIVE FromDecimal(_)
FromDecimal(d) ==
    IF Len(d) = 1 THEN DigitVal(d[1])
    ELSE 10 * FromDecimal(SubSeq(d, 1, Len(d) - 1)) + DigitVal(d[Len(d)])

\* the offset and the limit the server reads from a results request
RequestOffset(req) == FromDecimal(QueryValue(req.query, "offset"))
RequestLimit(req) == FromDecimal(QueryValue(req.query, "limit"))

\* the answers to the results request req: a failure, a body of another
\* shape, or the page at the requested offset with any finished flag and any
\* next_offset (one that goes on, goes back, or none)
ResultsReplies(req) ==
    LET served == ServerRows(RequestOffset(req), RequestLimit(req))
        result_sent == [ metadata |-> [ total_row_count |-> server_total,
                                        row_count |-> Len(served) ],
                         rows |-> served ]
        state_sent(f) == IF f THEN "QUERY_STATE_COMPLETED"
                         ELSE "QUERY_STATE_EXECUTING"
    IN  { TransportFailure, EmptyObject }
        \cup { [ sent |-> TRUE,
                 state |-> state_sent(f),
                 execution_id |-> << "0", "1", "H", "X" >>,
                 is_execution_finished |-> f,
                 query_id |-> 42,
                 result |-> result_sent ] : f \in BOOLEAN }
        \cup { [ sent |-> TRUE,
                 state |-> state_sent(f),
                 execution_id |-> << "0", "1", "H", "X" >>,
                 is_execution_finished |-> f,
                 next_offset |-> o,
                 query_id |-> 42,
                 result |-> result_sent ] : f \in BOOLEAN, o \in 0..MaxRows }

-----------------------------------------------------------------------------
(* The request builder.  .header("X-Dune-API-Key", &self.api_key) keeps    *)
(* the header when the key is a valid header value (no control character   *)
(* but the tab); otherwise the builder holds the error from then on.       *)

header_value_ok(key) ==
    \A i \in 1..Len(key) : key[i] \notin { "\n", "\r" }

\* request_builder.try_clone() (client.rs:45-46): None when the builder
\* holds an error
try_clone(key) == IF header_value_ok(key) THEN Some("request") ELSE None

\* .send().await: a builder that holds an error sends nothing and gives Err
sent_replies(key, replies) ==
    IF header_value_ok(key) THEN replies ELSE { TransportFailure }

-----------------------------------------------------------------------------
(* The single-call operations (client.rs:25-96).                           *)

\* execute_query: send, then decode (client.rs:58-69)
execute_query(reply) ==
    IF ~reply.sent THEN Err(RequestError)
    ELSE IF decode_execute_response(reply) = None THEN Err(ParseError)
    ELSE Ok(unwrap(decode_execute_response(reply)))

\* get_execution_status: send, then decode (client.rs:76-95)
get_execution_status(reply) ==
    IF ~reply.sent THEN Err(RequestError)
    ELSE IF decode_status_response(reply) = None THEN Err(ParseError)
    ELSE Ok(unwrap(decode_status_response(reply)))

\* one results round trip: send, then decode (client.rs:130-154, 175-199)
fetch_results(reply) ==
    IF ~reply.sent THEN Err(RequestError)
    ELSE IF decode_results_response(reply) = None THEN Err(ParseError)
    ELSE Ok(unwrap(decode_results_response(reply)))

-----------------------------------------------------------------------------
(* The poll loops.  What one tick does with the status fetched:            *)
(* "again" (the loop goes round), "finished" (has_finished = true) or      *)
(* "return" with the error returned.                                       *)

DefaultPollInterval == 60

\* as sleep_secs, the interval of the caller not looked at
sleep_secs_default(poll_interval) == DefaultPollInterval

\* poll_interval.unwrap_or(60)  (client.rs:227-229, 269-271)
sleep_secs(poll_interval) == unwrap_or(poll_interval, DefaultPollInterval)

\* as execute_match_status, every status but Pending and Executing ending
\* the loop as finished
execute_match_status_any_terminal(res) ==
    IF ~res.ok THEN [ step |-> "return", err |-> res.err ]
    ELSE CASE res.val.status = "QueryStateExecuting" -> [ step |-> "again" ]
           [] res.val.status = "QueryStatePending" -> [ step |-> "again" ]
           [] OTHER -> [ step |-> "finished" ]

\* execute_query_and_get_results_when_ready: client.rs:231-245
execute_match_status(res) ==
    IF ~res.ok THEN [ step |-> "return", err |-> res.err ]
    ELSE CASE res.val.status = "QueryStateExecuting" -> [ step |-> "again" ]
           [] res.val.status = "QueryStatePending" -> [ step |-> "again" ]
           [] res.val.status = "QueryStateCompleted" -> [ step |-> "finished" ]
           [] OTHER -> [ step |-> "return",
                         err |-> QueryStatusError(res.val.status) ]

\* as when_ready_match_status, the error not carrying the status observed
when_ready_match_status_lost_status(res) ==
    IF ~res.ok THEN [ step |-> "return", err |-> res.err ]
    ELSE CASE res.val.status = "QueryStateExecuting" -> [ step |-> "again" ]
           [] res.val.status = "QueryStatePending" -> [ step |-> "again" ]
           [] res.val.status = "QueryStateCompleted" -> [ step |-> "finished" ]
           [] OTHER -> [ step |-> "return",
                         err |-> QueryStatusError("QueryStateFailed") ]

\* as when_ready_match_status, the loop given up at the second status that
\* is not terminal
when_ready_match_status_capped(res) ==
    IF ~res.ok THEN [ step |-> "return", err |-> res.err ]
    ELSE CASE res.val.status \in { "QueryStateExecuting", "QueryStatePending" } ->
                 IF nonterminal >= 1
                 THEN [ step |-> "return", err |-> QueryNotFinished ]
                 ELSE [ step |-> "again" ]
           [] res.val.status = "QueryStateCompleted" -> [ step |-> "finished" ]
           [] OTHER -> [ step |-> "return",
                         err |-> QueryStatusError(res.val.status) ]

\* as when_ready_match_status, the loop going round on Failed as well
when_ready_match_status_polls_on(res) ==
    IF ~res.ok THEN [ step |-> "return", err |-> res.err ]
    ELSE CASE res.val.status = "QueryStateExecuting" -> [ step |-> "again" ]
           [] res.val.status = "QueryStatePending" -> [ step |-> "again" ]
           [] res.val.status = "QueryStateFailed" -> [ step |-> "again" ]
           [] res.val.status = "QueryStateCompleted" -> [ step |-> "finished" ]
           [] OTHER -> [ step |-> "return",
                         err |-> QueryStatusError(res.val.status) ]

\* as when_ready_match_status, a failed status fetch tried again
when_ready_match_status_retry(res) ==
    IF ~res.ok THEN [ step |-> "again" ]
    ELSE CASE res.val.status = "QueryStateExecuting" -> [ step |-> "again" ]
           [] res.val.status = "QueryStatePending" -> [ step |-> "again" ]
           [] res.val.status = "QueryStateCompleted" -> [ step |-> "finished" ]
           [] OTHER -> [ step |-> "return",
                         err |-> QueryStatusError(res.val.status) ]

\* get_query_results_when_ready: client.rs:273-287
when_ready_match_status(res) ==
    IF ~res.ok THEN [ step |-> "return", err |-> res.err ]
    ELSE CASE res.val.status = "QueryStateExecuting" -> [ step |-> "again" ]
           [] res.val.status = "QueryStatePending" -> [ step |-> "again" ]
           [] res.val.status = "QueryStateCompleted" -> [ step |-> "finished" ]
           [] OTHER -> [ step |-> "return",
                         err |-> QueryStatusError(res.val.status) ]

-----------------------------------------------------------------------------
(* The invocations.                                                        *)

\* as after_submit, a submit response that says Completed trusted
after_submit_trusts_status(res) ==
    IF res.val.status = "QueryStateCompleted" THEN "first_page" ELSE "sleep"

\* client.rs:217-225: a submit that succeeded enters the poll loop, the
\* status of its response not being read
after_submit(res) == "sleep"

\* as submitted_id, the query id submitted taken for the execution id
submitted_id_of_query(res) == args.query_id

\* client.rs:217-221: the execution id the rest of the entry works on
submitted_id(res) == res.val.execution_id

PollIntervals == { None, Some(5) }

\* the api keys a client is made with (client.rs:21-23, main.rs:120-122):
\* one that can be a header value and one ending in a line feed
ApiKeys == { << "k", "e", "y" >>, << "k", "e", "y", "\n" >> }

QueryIds == { << "4", "2" >> }

Invocations ==
    [ entry : { "get_query_results" }, id : Ids, peak : BOOLEAN ]
    \cup [ entry : { "get_query_results_when_ready" },
           execution_id : ExecutionIds,
           poll_interval : PollIntervals, peak : BOOLEAN ]
    \cup [ entry : { "execute_query_and_get_results_when_ready" },
           query_id : QueryIds, poll_interval : PollIntervals,
           peak : BOOLEAN ]

\* an invocation about to run, any client, any result set on the server
InitClient ==
    /\ args \in Invocations
    /\ pc = CASE args.entry = "get_query_results" -> "first_page"
              [] args.entry = "get_query_results_when_ready" -> "sleep"
              [] OTHER -> "submit"
    \* the id argument; not yet bound before the submit of the execute entry
    /\ execution_id = CASE args.entry = "get_query_results" -> args.id
                        [] args.entry = "get_query_results_when_ready" ->
                               args.execution_id
                        [] OTHER -> << >>
    /\ has_finished = FALSE
    /\ url_path = None
    /\ params = None
    /\ rows = << >>
    /\ metadata = None
    /\ next_offset = None
    /\ result = None
    /\ server_total \in 0..MaxRows
    /\ server_page \in 1..MaxPage
    /\ submit_reply = None
    /\ sleeps = << >>
    /\ polls = 0
    /\ nonterminal = 0
    /\ last_status = None
    /\ requests = << >>
    /\ pages = << >>
    /\ late_unfinished = FALSE
    /\ polled_id = None
    /\ api_key \in ApiKeys
    /\ encode_failed = FALSE
    /\ filter = << >>
    /\ filter_param = None
    /\ json_body = None
    /\ decoded = None
    /\ CsvIdle

\* one invocation on its own
Init == InitClient /\ other = None

pollVars == << has_finished, sleeps, polls, nonterminal, last_status,
              polled_id >>
pageVars == << url_path, params, rows, metadata, next_offset, requests, pages,
              late_unfinished, encode_failed >>
serverVars == << server_total, server_page >>

\* return value: the invocation is over
Return(r) ==
    /\ result' = Some(r)
    /\ pc' = "done"

NonTerminal(res) ==
    res.ok /\ res.val.status \in { "QueryStatePending", "QueryStateExecuting" }

-----------------------------------------------------------------------------
(* execute_query_and_get_results_when_ready (client.rs:209-255)            *)

\* client.rs:217-221, 250-253: the submit call
EQ_Submit ==
    /\ pc = "submit"
    /\ args.entry = "execute_query_and_get_results_when_ready"
    /\ IF try_clone(api_key) = None
       THEN \* .expect("Failed to clone request") (client.rs:47)
            /\ pc' = "panic"
            /\ UNCHANGED << submit_reply, execution_id, result >>
       ELSE \E reply \in sent_replies(api_key, SubmitReplies) :
              LET res == execute_query(reply)
              IN  /\ submit_reply' = Some(res)
                  /\ IF res.ok
                     THEN /\ execution_id' = submitted_id(res)
                          /\ pc' = after_submit(res)
                          /\ UNCHANGED result
                     ELSE /\ Return(Err(res.err))
                          /\ UNCHANGED execution_id
    /\ UNCHANGED << args, api_key, pollVars, pageVars, serverVars >>
    /\ UNCHANGED << typeVars, csvVars, other >>

\* client.rs:222-230: the head of the loop and the sleep
EQ_Sleep ==
    /\ pc = "sleep"
    /\ args.entry = "execute_query_and_get_results_when_ready"
    /\ ~has_finished
    /\ Len(sleeps) < MaxPolls
    /\ sleeps' = Append(sleeps, sleep_secs(args.poll_interval))
    /\ pc' = "status"
    /\ UNCHANGED << args, api_key, execution_id, has_finished, polls, nonterminal,
                    last_status, polled_id, result, submit_reply, pageVars,
                    serverVars >>
    /\ UNCHANGED << typeVars, csvVars, other >>

\* client.rs:231-248: the status fetch and what the loop does with it
EQ_Status ==
    /\ pc = "status"
    /\ args.entry = "execute_query_and_get_results_when_ready"
    /\ \E reply \in sent_replies(api_key, StatusReplies) :
         LET res == get_execution_status(reply)
             m == execute_match_status(res)
         IN  /\ last_status' = Some(res)
             /\ polled_id' = Some(execution_id)
             /\ polls' = polls + 1
             /\ nonterminal' = nonterminal + (IF NonTerminal(res) THEN 1 ELSE 0)
             /\ CASE m.step = "return" ->
                       /\ Return(Err(m.err))
                       /\ UNCHANGED has_finished
                  [] m.step = "finished" ->
                       /\ has_finished' = TRUE
                       /\ pc' = "first_page"
                       /\ UNCHANGED result
                  [] OTHER ->
                       /\ pc' = "sleep"
                       /\ UNCHANGED << has_finished, result >>
    /\ UNCHANGED << args, api_key, execution_id, sleeps, submit_reply, pageVars,
                    serverVars >>
    /\ UNCHANGED << typeVars, csvVars, other >>

-----------------------------------------------------------------------------
(* get_query_results_when_ready (client.rs:257-291)                        *)

\* as WR_Sleep, the status fetched before the first sleep
WR_Sleep_fetch_first ==
    /\ pc = "sleep"
    /\ args.entry = "get_query_results_when_ready"
    /\ ~has_finished
    /\ Len(sleeps) < MaxPolls
    /\ sleeps' = IF polls = 0 THEN sleeps
                 ELSE Append(sleeps, sleep_secs(args.poll_interval))
    /\ pc' = "status"
    /\ UNCHANGED << args, api_key, execution_id, has_finished, polls, nonterminal,
                    last_status, polled_id, result, submit_reply, pageVars,
                    serverVars >>
    /\ UNCHANGED << typeVars, csvVars, other >>

\* client.rs:263-272: the head of the loop and the sleep
WR_Sleep ==
    /\ pc = "sleep"
    /\ args.entry = "get_query_results_when_ready"
    /\ ~has_finished
    /\ Len(sleeps) < MaxPolls
    /\ sleeps' = Append(sleeps, sleep_secs(args.poll_interval))
    /\ pc' = "status"
    /\ UNCHANGED << args, api_key, execution_id, has_finished, polls, nonterminal,
                    last_status, polled_id, result, submit_reply, pageVars,
                    serverVars >>
    /\ UNCHANGED << typeVars, csvVars, other >>

\* client.rs:273-290: the status fetch and what the loop does with it
WR_Status ==
    /\ pc = "status"
    /\ args.entry = "get_query_results_when_ready"
    /\ \E reply \in sent_replies(api_key, StatusReplies) :
         LET res == get_execution_status(reply)
             m == when_ready_match_status(res)
         IN  /\ last_status' = Some(res)
             /\ polled_id' = Some(execution_id)
             /\ polls' = polls + 1
             /\ nonterminal' = nonterminal + (IF NonTerminal(res) THEN 1 ELSE 0)
             /\ CASE m.step = "return" ->
                       /\ Return(Err(m.err))
                       /\ UNCHANGED has_finished
                  [] m.step = "finished" ->
                       /\ has_finished' = TRUE
                       /\ pc' = "first_page"
                       /\ UNCHANGED result
                  [] OTHER ->
                       /\ pc' = "sleep"
                       /\ UNCHANGED << has_finished, result >>
    /\ UNCHANGED << args, api_key, execution_id, sleeps, submit_reply, pageVars,
                    serverVars >>
    /\ UNCHANGED << typeVars, csvVars, other >>

-----------------------------------------------------------------------------
(* get_query_results (client.rs:98-207)                                    *)

\* Vec::extend (client.rs:161, 201)
extend_drop(v, more) == v
extend_front(v, more) == more \o v

extend(v, more) == v \o more

\* client.rs:156
not_finished_never(res) == FALSE

\* as not_finished, a page without rows taken for one that is not finished
not_finished_or_empty(res) ==
    ~res.is_execution_finished \/ res.result.rows = << >>

not_finished(res) == ~res.is_execution_finished

\* client.rs:163-166 and 202-203: whether another page is asked for
another_page_even_peek(peak, next) == is_some(next)

\* as another_page, the first page being the only one
another_page_never(peak, next) == FALSE

another_page(peak, next) == ~peak /\ is_some(next)

\* history: what the loop reads of a page after the first one (not the
\* finished flag: late_unfinished records that one)
LaterPage(res) ==
    IF res.ok THEN Ok([ next_offset |-> res.val.next_offset,
                        result |-> res.val.result ])
    ELSE res

\* as failed_page_result, the rows read so far returned
failed_page_result_partial(res, md, rs) == Ok([ metadata |-> md, rows |-> rs ])

\* client.rs:182-199: what a run returns when a later page fails
failed_page_result(res, md, rs) == Err(res.err)

\* the request sent: client.rs:130-136, 175-181
results_request(path, encoded) == [ path |-> path, query |-> encoded ]

\* client.rs:99-162 and, without a next offset or in peek mode, 206
GQR_FirstPage ==
    /\ pc = "first_page"
    /\ LET t == results_target(execution_id, args.peak)
       IN
       \E enc \in encode_outcomes(t.params) :
           /\ encode_failed' = (enc = None)
           /\ url_path' = Some(t.url_path)
           /\ params' = Some(t.params)
           /\ IF enc = None
              THEN /\ Return(Err(EncodingError))
                   /\ UNCHANGED << rows, metadata, next_offset, requests, pages >>
              ELSE \E reply \in sent_replies(api_key,
                       ResultsReplies(results_request(t.url_path, unwrap(enc)))) :
                     LET res == fetch_results(reply)
                     IN  /\ requests' = Append(requests,
                                 results_request(t.url_path, unwrap(enc)))
                         /\ pages' = Append(pages, res)
                         /\ IF ~res.ok
                            THEN /\ Return(Err(res.err))
                                 /\ UNCHANGED << rows, metadata, next_offset >>
                            ELSE IF not_finished(res.val)
                            THEN /\ Return(Err(QueryNotFinished))
                                 /\ UNCHANGED << rows, metadata, next_offset >>
                            ELSE /\ metadata' = Some(res.val.result.metadata)
                                 /\ rows' = extend(rows, res.val.result.rows)
                                 /\ next_offset' =
                                        IF args.peak THEN next_offset
                                        ELSE res.val.next_offset
                                 /\ IF another_page(args.peak, res.val.next_offset)
                                    THEN /\ pc' = "next_page"
                                         /\ UNCHANGED result
                                    ELSE Return(Ok([ metadata |-> res.val.result.metadata,
                                                     rows |-> rows' ]))
    /\ UNCHANGED << args, api_key, execution_id, pollVars, submit_reply, serverVars,
                    late_unfinished >>
    /\ UNCHANGED << typeVars, csvVars, other >>

\* as GQR_NextPage, the finished flag of the page looked at as on the first
GQR_NextPage_checks_finished ==
    /\ pc = "next_page"
    /\ is_some(next_offset)
    /\ Len(requests) < MaxRequests
    /\ LET p == update_offset(unwrap(params), unwrap(next_offset))
       IN
       \E enc \in encode_outcomes(p) :
           /\ encode_failed' = (enc = None)
           /\ params' = Some(p)
           /\ IF enc = None
              THEN /\ Return(Err(ParseError))
                   /\ UNCHANGED << rows, next_offset, requests, pages,
                                   late_unfinished >>
              ELSE \E reply \in sent_replies(api_key,
                       ResultsReplies(results_request(unwrap(url_path), unwrap(enc)))) :
                     LET res == fetch_results(reply)
                     IN  /\ requests' = Append(requests,
                                 results_request(unwrap(url_path), unwrap(enc)))
                         /\ pages' = Append(pages, LaterPage(res))
                         /\ late_unfinished' =
                                (late_unfinished
                                   \/ (res.ok /\ ~res.val.is_execution_finished))
                         /\ IF ~res.ok
                            THEN /\ Return(failed_page_result(res,
                                            unwrap(metadata), rows))
                                 /\ UNCHANGED << rows, next_offset >>
                            ELSE IF not_finished(res.val)
                            THEN /\ Return(Err(QueryNotFinished))
                                 /\ UNCHANGED << rows, next_offset >>
                            ELSE /\ rows' = extend(rows, res.val.result.rows)
                                 /\ next_offset' = res.val.next_offset
                                 /\ IF another_page(args.peak, res.val.next_offset)
                                    THEN /\ pc' = "next_page"
                                         /\ UNCHANGED result
                                    ELSE Return(Ok([ metadata |-> unwrap(metadata),
                                                     rows |-> rows' ]))
    /\ UNCHANGED << args, api_key, execution_id, url_path, metadata, pollVars,
                    submit_reply, serverVars >>
    /\ UNCHANGED << typeVars, csvVars, other >>

\* client.rs:166-203: one round of the while loop and, at its end, 206
GQR_NextPage ==
    /\ pc = "next_page"
    /\ is_some(next_offset)
    /\ Len(requests) < MaxRequests
    /\ LET p == update_offset(unwrap(params), unwrap(next_offset))
       IN
       \E enc \in encode_outcomes(p) :
           /\ encode_failed' = (enc = None)
           /\ params' = Some(p)
           /\ IF enc = None
              THEN /\ Return(Err(ParseError))
                   /\ UNCHANGED << rows, next_offset, requests, pages,
                                   late_unfinished >>
              ELSE \E reply \in sent_replies(api_key,
                       ResultsReplies(results_request(unwrap(url_path), unwrap(enc)))) :
                     LET res == fetch_results(reply)
                     IN  /\ requests' = Append(requests,
                                 results_request(unwrap(url_path), unwrap(enc)))
                         /\ pages' = Append(pages, LaterPage(res))
                         /\ late_unfinished' =
                                (late_unfinished
                                   \/ (res.ok /\ ~res.val.is_execution_finished))
                         /\ IF ~res.ok
                            THEN /\ Return(failed_page_result(res,
                                            unwrap(metadata), rows))
                                 /\ UNCHANGED << rows, next_offset >>
                            ELSE /\ rows' = extend(rows, res.val.result.rows)
                                 /\ next_offset' = res.val.next_offset
                                 /\ IF another_page(args.peak, res.val.next_offset)
                                    THEN /\ pc' = "next_page"
                                         /\ UNCHANGED result
                                    ELSE Return(Ok([ metadata |-> unwrap(metadata),
                                                     rows |-> rows' ]))
    /\ UNCHANGED << args, api_key, execution_id, url_path, metadata, pollVars,
                    submit_reply, serverVars >>
    /\ UNCHANGED << typeVars, csvVars, other >>

-----------------------------------------------------------------------------

Next ==
    \/ EQ_Submit
    \/ EQ_Sleep
    \/ EQ_Status
    \/ WR_Sleep
    \/ WR_Status
    \/ GQR_FirstPage
    \/ GQR_NextPage

Spec == Init /\ [][Next]_vars

-----------------------------------------------------------------------------
(* The types of types.rs on their own: a QueryResultsFilter that is built  *)
(* and serialized, with no client call in progress.                        *)

\* no invocation: the variables of the client at rest
ClientIdle ==
    /\ args = [ entry |-> "none" ]
    /\ pc = "idle"
    /\ execution_id = << >>
    /\ has_finished = FALSE
    /\ url_path = None
    /\ params = None
    /\ rows = << >>
    /\ metadata = None
    /\ next_offset = None
    /\ result = None
    /\ server_total = 0
    /\ server_page = 1
    /\ submit_reply = None
    /\ sleeps = << >>
    /\ polls = 0
    /\ nonterminal = 0
    /\ last_status = None
    /\ requests = << >>
    /\ pages = << >>
    /\ late_unfinished = FALSE
    /\ polled_id = None
    /\ api_key = << "k", "e", "y" >>
    /\ encode_failed = FALSE

clientVars == << args, api_key, pc, execution_id, result, submit_reply, pollVars,
                 pageVars, serverVars >>

\* filter = filter.add_filter(f)
AddFilter ==
    /\ Len(filter) < MaxFilters
    /\ \E f \in FilterStrings : filter' = add_filter(filter, f)
    /\ filter_param' = None
    /\ UNCHANGED << json_body, decoded, clientVars, csvVars, other >>

\* filter.to_option_string()
ToOptionString ==
    /\ filter_param = None
    /\ filter_param' = Some(to_option_string(filter))
    /\ UNCHANGED << filter, json_body, decoded, clientVars, csvVars, other >>

\* the three response shapes and the fields a body of each may carry: the
\* fields of the struct and one the struct does not have
Shapes == { "execute", "status", "results" }

ShapeFields(shape) ==
    CASE shape = "execute" -> ExecuteRequired \cup { "execution_started_at" }
      [] shape = "status" ->
             StatusRequired \cup { "result_metadata", "execution_started_at" }
      [] shape = "results" ->
             ResultsRequired \cup { "next_offset", "execution_started_at" }

\* the value a body carries for a field; the state is the token t
SampleValue(key, t) ==
    CASE key = "sent" -> TRUE
      [] key = "state" -> t
      [] key = "execution_id" -> << "0", "1", "H", "X" >>
      [] key = "query_id" -> 42
      [] key = "is_execution_finished" -> TRUE
      [] key = "result_metadata" -> [ total_row_count |-> 1 ]
      [] key = "next_offset" -> 1
      [] key = "result" ->
             [ metadata |-> [ total_row_count |-> 1, row_count |-> 1 ],
               rows |-> << 1 >> ]
      [] OTHER -> "2024-12-20T11:04:18Z"

\* the bodies of a shape: any of its fields present, any token as state
JsonBodies(shape) ==
    { [ k \in present \cup { "sent" } |-> SampleValue(k, t) ]
      : present \in SUBSET ShapeFields(shape), t \in Tokens }

\* the call that reads a body of this shape
decode_as(shape, reply) ==
    CASE shape = "execute" -> execute_query(reply)
      [] shape = "status" -> get_execution_status(reply)
      [] shape = "results" -> fetch_results(reply)

\* the client at rest, an empty filter, and a body received and not yet read
InitTypes ==
    /\ ClientIdle
    /\ filter = new_filter
    /\ filter_param = None
    /\ \E shape \in Shapes :
         \E reply \in JsonBodies(shape) :
            json_body = Some([ shape |-> shape, body |-> reply ])
    /\ decoded = None
    /\ CsvIdle
    /\ other = None

\* response.json::<T>() on the body received, as the client calls do it
Decode ==
    /\ decoded = None
    /\ decoded' = Some(decode_as(unwrap(json_body).shape,
                                 unwrap(json_body).body))
    /\ UNCHANGED << filter, filter_param, json_body, clientVars, csvVars,
                    other >>

NextTypes ==
    \/ AddFilter
    \/ ToOptionString
    \/ Decode

SpecTypes == InitTypes /\ [][NextTypes]_vars

-----------------------------------------------------------------------------
(* save_json_as_csv (utils.rs:5-52).  A JSON value is a record with its    *)
(* type; an object holds its members as a sequence of << key, value >> in  *)
(* the order the map iterates them, each key once.  The file is the        *)
(* sequence of the records written, each a sequence of cells.              *)

\* at most this many records are given
MaxRecords == 2

JsonScalars ==
    { [ type |-> "String", text |-> << "x" >> ],
      [ type |-> "Number", number |-> 17 ],
      [ type |-> "Bool", bool |-> TRUE ],
      [ type |-> "Null" ],
      [ type |-> "Array" ] }

CsvKeys == { "a", "b" }

\* the objects over CsvKeys: none, one or both keys, in either order
JsonObjects ==
    { [ type |-> "Object", members |-> << >> ] }
    \cup { [ type |-> "Object", members |-> << << k, v >> >> ]
           : k \in CsvKeys, v \in JsonScalars }
    \cup { [ type |-> "Object",
             members |-> << << ks[1], v1 >>, << ks[2], v2 >> >> ]
           : ks \in { << "a", "b" >>, << "b", "a" >> },
             v1 \in JsonScalars, v2 \in JsonScalars }

\* the rows a query result may hold: objects, and a value that is none
JsonRows == JsonObjects \cup { [ type |-> "Null" ] }

\* Value::as_object
as_object(value) ==
    IF value.type = "Object" THEN Some(value.members) ELSE None

\* Map::keys, collected (utils.rs:21)
object_keys(object) == [ i \in 1..Len(object) |-> object[i][1] ]

\* Map::get
object_get(object, key) ==
    IF \E i \in 1..Len(object) : object[i][1] = key
    THEN Some(object[CHOOSE i \in 1..Len(object) : object[i][1] = key][2])
    ELSE None

\* the text of a cell (utils.rs:33-40)
cell_text(value) ==
    CASE value.type = "String" -> value.text
      [] value.type = "Number" -> ToDecimal(value.number)
      [] value.type = "Bool" -> BoolText(value.bool)
      [] value.type = "Null" -> << >>
      [] OTHER -> << >>

\* as csv_row, the members of the record written whatever the headers
csv_row_own_members(headers, object) ==
    [ i \in 1..Len(object) |-> cell_text(object[i][2]) ]

\* the row of one record (utils.rs:28-44)
csv_row(headers, object) ==
    [ i \in 1..Len(headers) |->
        IF object_get(object, headers[i]) = None THEN << >>
        ELSE cell_text(unwrap(object_get(object, headers[i]))) ]

\* utils.rs:15-24: the headers, from the first record when it is an object
csv_headers(recs) ==
    IF recs # << >> /\ is_some(as_object(recs[1]))
    THEN object_keys(unwrap(as_object(recs[1])))
    ELSE << >>

\* utils.rs:18-24: the header row is written when the first record is an
\* object
header_rows(recs) ==
    IF recs # << >> /\ is_some(as_object(recs[1]))
    THEN << csv_headers(recs) >>
    ELSE << >>

\* utils.rs:27-47: one row for every record that is an object
RECURSIVE data_rows(_, _)
data_rows(headers, recs) ==
    IF recs = << >> THEN << >>
    ELSE (IF is_some(as_object(recs[1]))
          THEN << csv_row(headers, unwrap(as_object(recs[1]))) >>
          ELSE << >>)
         \o data_rows(headers, Tail(recs))

RECURSIVE SeqsUpTo(_, _)
SeqsUpTo(S, n) ==
    IF n = 0 THEN { << >> }
    ELSE SeqsUpTo(S, n - 1)
         \cup { Append(q, x) : q \in SeqsUpTo(S, n - 1), x \in S }

\* the client at rest and the records of a result about to be saved
InitCsv ==
    /\ ClientIdle
    /\ filter = new_filter
    /\ filter_param = None
    /\ json_body = None
    /\ decoded = None
    /\ other = None
    /\ records \in SeqsUpTo(JsonRows, MaxRecords)
    /\ wtr = << >>
    /\ csv_result = None

\* utils.rs:10-12: the file cannot be created: `?` returns the error
SaveCsvNoFile ==
    /\ csv_result = None
    /\ csv_result' = Some(Err([ kind |-> "io" ]))
    /\ UNCHANGED << records, wtr, clientVars, typeVars, other >>

\* utils.rs:10-51: the file created, headers and rows written, flushed
SaveCsv ==
    /\ csv_result = None
    /\ wtr' = header_rows(records) \o data_rows(csv_headers(records), records)
    /\ csv_result' = Some(Ok("()"))
    /\ UNCHANGED << records, clientVars, typeVars, other >>

NextCsv ==
    \/ SaveCsv
    \/ SaveCsvNoFile

SpecCsv == InitCsv /\ [][NextCsv]_vars

-----------------------------------------------------------------------------
(* Two invocations on one client.  Every variable of an invocation is a    *)
(* local of its async fn (client.rs:99-101, 217-223, 263-264); the client  *)
(* holds the api key and nothing else (client.rs:16-18) and is borrowed    *)
(* as &self.  One invocation runs at a time; at an .await the executor may *)
(* run the other one: its locals are kept in `other` meanwhile.            *)

\* the locals of the invocation that is running
TaskState ==
    [ args |-> args, pc |-> pc, execution_id |-> execution_id,
      has_finished |-> has_finished, url_path |-> url_path,
      params |-> params, rows |-> rows, metadata |-> metadata,
      next_offset |-> next_offset, result |-> result,
      submit_reply |-> submit_reply, sleeps |-> sleeps, polls |-> polls,
      nonterminal |-> nonterminal, last_status |-> last_status,
      requests |-> requests, pages |-> pages,
      late_unfinished |-> late_unfinished, polled_id |-> polled_id,
      encode_failed |-> encode_failed ]

\* the invocations run side by side: one of each entry
ConcurrentInvocations ==
    { [ entry |-> "get_query_results", id |-> << "0", "1", "H", "X" >>,
        peak |-> FALSE ],
      [ entry |-> "get_query_results_when_ready",
        execution_id |-> << "4", "2" >>, poll_interval |-> Some(5),
        peak |-> TRUE ],
      [ entry |-> "execute_query_and_get_results_when_ready",
        query_id |-> << "4", "2" >>, poll_interval |-> None,
        peak |-> FALSE ] }

\* the locals of an invocation that has not run yet
TaskStart(a) ==
    [ args |-> a,
      pc |-> CASE a.entry = "get_query_results" -> "first_page"
               [] a.entry = "get_query_results_when_ready" -> "sleep"
               [] OTHER -> "submit",
      execution_id |-> CASE a.entry = "get_query_results" -> a.id
                         [] a.entry = "get_query_results_when_ready" ->
                                a.execution_id
                         [] OTHER -> << >>,
      has_finished |-> FALSE, url_path |-> None, params |-> None,
      rows |-> << >>, metadata |-> None, next_offset |-> None,
      result |-> None, submit_reply |-> None, sleeps |-> << >>,
      polls |-> 0, nonterminal |-> 0, last_status |-> None,
      requests |-> << >>, pages |-> << >>, late_unfinished |-> FALSE,
      polled_id |-> None, encode_failed |-> FALSE ]

InitConcurrent ==
    /\ InitClient
    /\ args \in ConcurrentInvocations
    /\ header_value_ok(api_key)
    /\ \E a \in ConcurrentInvocations : other = Some(TaskStart(a))
    /\ server_total = MaxRows
    /\ server_page = 1

\* the locals of the running invocation set to those of t
Resume(t) ==
    /\ args' = t.args
    /\ pc' = t.pc
    /\ execution_id' = t.execution_id
    /\ has_finished' = t.has_finished
    /\ url_path' = t.url_path
    /\ params' = t.params
    /\ rows' = t.rows
    /\ metadata' = t.metadata
    /\ next_offset' = t.next_offset
    /\ result' = t.result
    /\ submit_reply' = t.submit_reply
    /\ sleeps' = t.sleeps
    /\ polls' = t.polls
    /\ nonterminal' = t.nonterminal
    /\ last_status' = t.last_status
    /\ requests' = t.requests
    /\ pages' = t.pages
    /\ late_unfinished' = t.late_unfinished
    /\ polled_id' = t.polled_id
    /\ encode_failed' = t.encode_failed

\* as Switch, the accumulated rows being one vector for both invocations
Switch_one_rows_vector ==
    /\ is_some(other)
    /\ other' = Some(TaskState)
    /\ Resume([ unwrap(other) EXCEPT !.rows = rows ])
    /\ UNCHANGED << api_key, serverVars, typeVars, csvVars >>

\* the executor leaves the running invocation at an .await and polls the
\* other one
Switch ==
    /\ is_some(other)
    /\ other' = Some(TaskState)
    /\ Resume(unwrap(other))
    /\ UNCHANGED << api_key, serverVars, typeVars, csvVars >>

-----------------------------------------------------------------------------
(* Vocabulary of the properties.                                           *)

Orchestrator ==
    args.entry \in { "execute_query_and_get_results_when_ready",
                     "get_query_results_when_ready" }

\* the last status fetch succeeded with a status of the set S
LastStatusIn(S) ==
    /\ is_some(last_status)
    /\ unwrap(last_status).ok
    /\ unwrap(last_status).val.status \in S

\* the last status fetch failed (transport or decode)
LastStatusFailed == is_some(last_status) /\ ~unwrap(last_status).ok

Returned == pc = "done" /\ is_some(result)
ReturnedOk == Returned /\ unwrap(result).ok
ReturnedErr(e) == Returned /\ result = Some(Err(e))

\* the poll loop of an orchestrator entry has been left
PollPhaseOver == polls >= 1 /\ pc \in { "first_page", "next_page", "done" }

RECURSIVE ConcatRows(_)
ConcatRows(ps) ==
    IF ps = << >> THEN << >>
    ELSE (IF ps[1].ok THEN ps[1].val.result.rows ELSE << >>)
         \o ConcatRows(Tail(ps))

HasKey(query, key) == \E i \in 1..Len(query) : query[i][1] = key

-----------------------------------------------------------------------------
(* C1: in both orchestrator entries, once a status fetch has returned      *)
(* Completed or CompletedPartial the poll loop is left and the invocation  *)
(* stands at the hand-off to get_query_results for that execution id (or   *)
(* is already past it); the status is not returned as an error.            *)
C1_SuccessStatusHandsOff ==
    (Orchestrator
       /\ LastStatusIn({ "QueryStateCompleted", "QueryStateCompletedPartial" }))
    => /\ has_finished
       /\ ~ReturnedErr(QueryStatusError(unwrap(last_status).val.status))
       /\ (requests = << >> => pc = "first_page" /\ result = None)

(* C2: when a status fetch returns Failed, Cancelled or Expired, the       *)
(* orchestrator entry has returned QueryStatusError carrying exactly that  *)
(* status, and no results request was issued in the invocation.            *)
C2_FailureStatusReturned ==
    (Orchestrator
       /\ LastStatusIn({ "QueryStateFailed", "QueryStateCancelled",
                         "QueryStateExpired" }))
    => /\ ReturnedErr(QueryStatusError(unwrap(last_status).val.status))
       /\ requests = << >>
       /\ pages = << >>

C2_Witness ==
    /\ Orchestrator
    /\ nonterminal >= 1
    /\ LastStatusIn({ "QueryStateCancelled" })
    /\ Returned

(* C3: in a run of an orchestrator entry a results request has been issued *)
(* only if a status fetch of the run returned Completed or                 *)
(* CompletedPartial, and that was the last status fetched: never before    *)
(* the first status fetch, and never when the last observed status is      *)
(* Pending, Executing, Failed, Cancelled or Expired.                       *)
C3_RequestOnlyAfterSuccess ==
    (Orchestrator /\ requests # << >>)
    => /\ polls >= 1
       /\ LastStatusIn({ "QueryStateCompleted", "QueryStateCompletedPartial" })

C3_Witness ==
    /\ Orchestrator
    /\ Len(requests) >= 2
    /\ nonterminal >= 1

(* C4: if a status fetch fails with RequestError or ParseError, the        *)
(* orchestrator entry has returned that same error: the loop is over, so   *)
(* no status fetch and no sleep follows the failed fetch, and no results   *)
(* request is issued.                                                      *)
C4_StatusErrorPropagated ==
    (Orchestrator /\ LastStatusFailed)
    => /\ unwrap(last_status).err \in { RequestError, ParseError }
       /\ ReturnedErr(unwrap(last_status).err)
       /\ Len(sleeps) = polls
       /\ requests = << >>

C4_Witness ==
    /\ Orchestrator
    /\ nonterminal >= 1
    /\ LastStatusFailed
    /\ ReturnedErr(ParseError)

(* C5 as stated: each poll tick fetches the status first and sleeps only   *)
(* after a non-terminal status, so that no sleep precedes the first status *)
(* fetch and, once the poll loop is left, the number of sleeps equals the  *)
(* number of non-terminal statuses observed.                               *)
C5_SleepAfterNonTerminal ==
    Orchestrator
    => /\ Len(sleeps) <= polls
       /\ (PollPhaseOver => Len(sleeps) = nonterminal)

(* C5 amended: each poll tick sleeps for the poll interval first and then  *)
(* fetches the status; the loop goes round only after a non-terminal       *)
(* status.  So exactly one sleep precedes every status fetch, and once the *)
(* poll loop is left the number of sleeps equals the number of status      *)
(* fetches made, which is the number of non-terminal statuses observed     *)
(* plus one.                                                               *)
C5_SleepBeforeEveryFetch ==
    Orchestrator
    => /\ (pc = "status" => Len(sleeps) = polls + 1)
       /\ (pc # "status" => Len(sleeps) = polls)
       /\ (pc = "sleep" => polls = nonterminal)
       /\ (PollPhaseOver => /\ Len(sleeps) = polls
                            /\ Len(sleeps) = nonterminal + 1)

C5_Witness ==
    /\ Orchestrator
    /\ PollPhaseOver
    /\ polls = 1
    /\ Len(sleeps) = 1
    /\ nonterminal = 0
    /\ LastStatusIn({ "QueryStateCompleted" })

-----------------------------------------------------------------------------
(* The server's part in a pagination run, read from the history.           *)

\* the offset of the i-th results request
OffsetAsked(i) == RequestOffset(requests[i])

\* no answer carried a next_offset at or below the offset just requested
NoRegression ==
    \A i \in 1..Len(pages) :
        (pages[i].ok /\ is_some(pages[i].val.next_offset))
        => unwrap(pages[i].val.next_offset) > OffsetAsked(i)

\* The server serves the result set in offset order (offset pagination:
\* each response indicates the offset of the next page, or its absence):
\* every answer decoded, a next_offset is the offset of the first row after
\* the page, and it is absent only on the page that ends the result set.
ServedInOffsetOrder ==
    \A i \in 1..Len(pages) :
        /\ pages[i].ok
        /\ LET n == Len(pages[i].val.result.rows)
               total == pages[i].val.result.metadata.total_row_count
           IN  IF is_some(pages[i].val.next_offset)
               THEN unwrap(pages[i].val.next_offset) = OffsetAsked(i) + n
               ELSE OffsetAsked(i) + n = total

(* C6: when the server serves a finished result set in offset order and    *)
(* every next_offset it reports is strictly greater than the offset just   *)
(* requested (no regression), a non-peek get_query_results run that        *)
(* returns, returns as many rows as the total row count the server         *)
(* reports.                                                                *)
C6_RowCountIsTotal ==
    (ReturnedOk /\ ~args.peak /\ NoRegression /\ ServedInOffsetOrder)
    => Len(unwrap(result).val.rows)
         = unwrap(result).val.metadata.total_row_count

C6_Witness ==
    /\ ReturnedOk
    /\ ~args.peak
    /\ NoRegression
    /\ ServedInOffsetOrder
    /\ Len(pages) >= 2
    /\ Len(unwrap(result).val.rows) >= 2

(* C7: a successful get_query_results returns as rows the concatenation of *)
(* the row batches of every page fetched, in the order fetched, and as     *)
(* metadata the metadata of the first page.                                *)
C7_RowsAreThePagesInOrder ==
    ReturnedOk
    => /\ unwrap(result).val.rows = ConcatRows(pages)
       /\ unwrap(result).val.metadata = pages[1].val.result.metadata
       /\ \A i \in 1..Len(pages) : pages[i].ok

C7_Witness ==
    /\ ReturnedOk
    /\ Len(pages) >= 2
    /\ pages[1].val.result.rows # << >>
    /\ pages[2].val.result.rows # << >>
    /\ pages[2].val.result.rows # pages[1].val.result.rows
    /\ pages[2].val.result.metadata # pages[1].val.result.metadata

(* C8: in peek mode get_query_results issues exactly one results request   *)
(* and returns only the rows of that page, whatever next_offset the        *)
(* response carries.                                                       *)
C8_PeekOneRequest ==
    args.peak
    => /\ Len(requests) <= 1
       /\ pc # "next_page"
       /\ (ReturnedOk => /\ Len(requests) = 1
                         /\ unwrap(result).val.rows = pages[1].val.result.rows)

C8_Witness ==
    /\ args.peak
    /\ ReturnedOk
    /\ is_some(pages[1].val.next_offset)
    /\ unwrap(result).val.rows # << >>

(* C9: if the first results response decodes with is_execution_finished =  *)
(* false, get_query_results has returned QueryNotFinished: no rows were    *)
(* kept, no second request was issued, and it did not sleep or poll.       *)
C9_NotFinishedAtOnce ==
    (pages # << >> /\ pages[1].ok /\ ~pages[1].val.is_execution_finished)
    => /\ ReturnedErr(QueryNotFinished)
       /\ Len(requests) = 1
       /\ rows = << >>
       /\ metadata = None
       /\ (~Orchestrator => sleeps = << >> /\ polls = 0)
       /\ (Orchestrator => Len(sleeps) = polls)

C9_Witness ==
    /\ pages # << >>
    /\ pages[1].ok
    /\ ~pages[1].val.is_execution_finished
    /\ is_some(pages[1].val.next_offset)
    /\ pages[1].val.result.rows # << >>
    /\ Returned

(* C10: every results request of a run goes to the query-id endpoint with  *)
(* the parsed number as query_id when the identifier parses as a u64, and  *)
(* to the execution-id endpoint with the identifier itself as execution_id *)
(* otherwise; so all requests of one run go to the same endpoint.          *)
C10_TargetDispatch ==
    \A i \in 1..Len(requests) :
        IF is_some(parse_u64(execution_id))
        THEN /\ requests[i].path =
                    [ endpoint |-> "v1/query/{}/results",
                      id |-> unwrap(parse_u64(execution_id)) ]
             /\ HasKey(requests[i].query, "query_id")
             /\ ~HasKey(requests[i].query, "execution_id")
             /\ QueryValue(requests[i].query, "query_id")
                    = unwrap(parse_u64(execution_id))
        ELSE /\ requests[i].path =
                    [ endpoint |-> "v1/execution/{}/results",
                      id |-> execution_id ]
             /\ HasKey(requests[i].query, "execution_id")
             /\ ~HasKey(requests[i].query, "query_id")
             /\ QueryValue(requests[i].query, "execution_id") = execution_id

C10_Witness ==
    /\ args.entry = "get_query_results"
    /\ execution_id = << "+", "7" >>
    /\ Len(requests) >= 2
    /\ requests[2].path = [ endpoint |-> "v1/query/{}/results", id |-> << "7" >> ]

-----------------------------------------------------------------------------
\* the first n filters written one after the other with " AND " between
RECURSIVE JoinedUpTo(_, _)
JoinedUpTo(f, n) ==
    IF n = 1 THEN f[1]
    ELSE JoinedUpTo(f, n - 1) \o << " ", "A", "N", "D", " " >> \o f[n]

(* C11: to_option_string returns None for an empty filter collection, the  *)
(* single filter string verbatim for one filter, and for two or more the   *)
(* strings joined with the literal " AND ", in the order add_filter added  *)
(* them.                                                                   *)
C11_FilterComposition ==
    is_some(filter_param)
    => /\ (Len(filter) = 0 => unwrap(filter_param) = None)
       /\ (Len(filter) = 1 => unwrap(filter_param) = Some(filter[1]))
       /\ (Len(filter) >= 2 =>
               unwrap(filter_param) = Some(JoinedUpTo(filter, Len(filter))))

C11_Witness ==
    /\ filter = << << "b" >>, << >>, << "a", ">", "1" >> >>
    /\ filter_param =
           Some(Some(<< "b", " ", "A", "N", "D", " ", " ", "A", "N", "D", " ",
                        "a", ">", "1" >>))

-----------------------------------------------------------------------------
\* the seven documented tokens with the variant each one names
DocumentedTokens ==
    { << "QUERY_STATE_PENDING", "QueryStatePending" >>,
      << "QUERY_STATE_EXECUTING", "QueryStateExecuting" >>,
      << "QUERY_STATE_FAILED", "QueryStateFailed" >>,
      << "QUERY_STATE_COMPLETED", "QueryStateCompleted" >>,
      << "QUERY_STATE_CANCELLED", "QueryStateCancelled" >>,
      << "QUERY_STATE_EXPIRED", "QueryStateExpired" >>,
      << "QUERY_STATE_COMPLETED_PARTIAL", "QueryStateCompletedPartial" >> }

Documented(t) == \E d \in DocumentedTokens : d[1] = t

\* the body last decoded, its shape and what the decode gave
LastBody == unwrap(json_body).body
LastShape == unwrap(json_body).shape
LastDecoded == unwrap(decoded)

\* every field of the body's shape that is not an Option is present
RequiredPresent ==
    CASE LastShape = "execute" ->
             { "execution_id", "state" } \subseteq DOMAIN LastBody
      [] LastShape = "status" ->
             { "execution_id", "query_id", "is_execution_finished", "state" }
                 \subseteq DOMAIN LastBody
      [] LastShape = "results" ->
             { "state", "execution_id", "is_execution_finished", "query_id",
               "result" } \subseteq DOMAIN LastBody

\* what the decoded value holds as status
DecodedStatus ==
    IF "status" \in DOMAIN LastDecoded.val THEN LastDecoded.val.status
    ELSE LastDecoded.val.state

(* C12: in each of the three response shapes (execute, status, paginated   *)
(* results) a documented token decodes to the ExecutionStatus variant it   *)
(* names, and any other token makes the decode fail with ParseError.       *)
C12_TokenDecodesOrFails ==
    (is_some(decoded) /\ RequiredPresent)
    => IF Documented(LastBody.state)
       THEN /\ LastDecoded.ok
            /\ << LastBody.state, DecodedStatus >> \in DocumentedTokens
       ELSE LastDecoded = Err(ParseError)

(* C13: decoding a status response succeeds exactly when execution_id,     *)
(* query_id, is_execution_finished and a valid state token are present; an *)
(* absent result_metadata decodes as none, a field the struct does not     *)
(* have is ignored, and a decode that does not succeed is a ParseError.    *)
C13_StatusDecodeStrict ==
    (is_some(decoded) /\ LastShape = "status")
    => /\ LastDecoded.ok
              <=> (RequiredPresent /\ Documented(LastBody.state))
       /\ ~LastDecoded.ok => LastDecoded = Err(ParseError)
       /\ LastDecoded.ok =>
              /\ LastDecoded.val.execution_id = LastBody.execution_id
              /\ LastDecoded.val.query_id = LastBody.query_id
              /\ LastDecoded.val.is_execution_finished
                     = LastBody.is_execution_finished
              /\ "result_metadata" \notin DOMAIN LastBody
                     => LastDecoded.val.result_metadata = None
              /\ "result_metadata" \in DOMAIN LastBody
                     => LastDecoded.val.result_metadata
                            = Some(LastBody.result_metadata)

C13_Witness ==
    /\ is_some(decoded)
    /\ LastShape = "status"
    /\ DOMAIN LastBody = { "sent", "execution_id", "query_id",
                           "is_execution_finished", "state",
                           "execution_started_at" }
    /\ LastBody.state = "QUERY_STATE_EXECUTING"
    /\ LastDecoded.ok
    /\ LastDecoded.val.result_metadata = None
    /\ LastDecoded.val.status = "QueryStateExecuting"

-----------------------------------------------------------------------------
\* the execute entry, and what its submit returned
ExecuteEntry == args.entry = "execute_query_and_get_results_when_ready"
SubmitFailed == is_some(submit_reply) /\ ~unwrap(submit_reply).ok
SubmitId == unwrap(submit_reply).val.execution_id

\* the id a results request names in its first parameter
ParamId(req) == req.query[1][2]

(* C14: execute_query_and_get_results_when_ready submits first, polls      *)
(* next and reads pages last; the status fetches and the results requests  *)
(* name the execution id the submit response carried; a failed submit      *)
(* returns its error as it is, with no sleep, no status fetch and no       *)
(* results request.                                                        *)
C14_SubmitPollPaginate ==
    ExecuteEntry
    => /\ submit_reply = None
              => (sleeps = << >> /\ polls = 0 /\ requests = << >>)
       /\ SubmitFailed
              => /\ Returned
                 /\ result = submit_reply
                 /\ sleeps = << >> /\ polls = 0 /\ requests = << >>
       /\ is_some(polled_id) => unwrap(polled_id) = SubmitId
       /\ pc \in { "sleep", "status" } => requests = << >>
       /\ requests # << >>
              => /\ has_finished
                 /\ pc \in { "next_page", "done" }
                 /\ LastStatusIn({ "QueryStateCompleted" })
                 /\ Len(sleeps) = polls
       /\ (is_some(submit_reply) /\ ~SubmitFailed) => execution_id = SubmitId
       /\ \A i \in 1..Len(requests) :
              /\ requests[i].path = results_target(SubmitId, args.peak).url_path
              /\ ParamId(requests[i])
                     = results_target(SubmitId, args.peak).params.id

C14_Witness ==
    /\ ExecuteEntry
    /\ is_some(submit_reply)
    /\ ~SubmitFailed
    /\ SubmitId = << "0", "1", "H", "X" >>
    /\ polls = 2
    /\ polled_id = Some(<< "0", "1", "H", "X" >>)
    /\ Len(requests) = 2
    /\ ParamId(requests[2]) = << "0", "1", "H", "X" >>
    /\ ReturnedOk

\* a failed submit of the execute entry, seen from another angle
C14_WitnessSubmitFailed == ExecuteEntry /\ SubmitFailed /\ Returned

(* C15: when serializing the page-request parameters fails in a            *)
(* get_query_results run, for the first page or for a later one, the run   *)
(* returns EncodingError and no other error kind.                          *)
C15_EncodeFailureIsEncodingError ==
    encode_failed => ReturnedErr(EncodingError)

(* C16: no request is tried again: a failed submit or results request      *)
(* (transport failure or undecodable body) is the last request of the      *)
(* invocation, which returns that error; a failure on a page after the     *)
(* first never gives a QueryResult holding the rows of the pages before.   *)
C16_NoRetry ==
    /\ SubmitFailed
           => (Returned /\ result = submit_reply /\ requests = << >>)
    /\ \A i \in 1..Len(pages) :
           ~pages[i].ok
           => /\ i = Len(requests)
              /\ Returned
              /\ ~unwrap(result).ok
              /\ unwrap(result).err = pages[i].err

C16_Witness ==
    /\ Len(pages) = 3
    /\ pages[1].ok /\ pages[2].ok /\ ~pages[3].ok
    /\ rows # << >>
    /\ ReturnedErr(ParseError)

(* C17: every failure inside the core operations reaches the caller as a   *)
(* DuneError value: no path of them aborts the program instead of          *)
(* returning, a failure to build or inspect the submit request included.   *)
C17_NoPanic == pc # "panic"

(* C18: every sleep of a poll run lasts the poll interval the caller gave, *)
(* or 60 when none was given: the same for every tick of the run.          *)
C18_SleepIsTheInterval ==
    \A i \in 1..Len(sleeps) :
        sleeps[i] = (IF args.poll_interval = << >> THEN 60
                     ELSE args.poll_interval[1])

C18_Witness ==
    /\ Len(sleeps) = 2
    /\ args.poll_interval = << 5 >>
    /\ sleeps = << 5, 5 >>

\* as C18_Witness, for a caller that gave no interval
C18_WitnessDefault == Len(sleeps) = 2 /\ args.poll_interval = << >>

(* C19: the poll loop has no attempt bound: while every status fetch so    *)
(* far succeeded with Pending or Executing the invocation has not returned *)
(* and stands in the loop, about to sleep or to fetch, with no results     *)
(* request made; the loop is left only on a status fetch that returned a   *)
(* terminal status or failed.                                              *)
C19_PollsUntilTerminal ==
    (Orchestrator /\ pc # "submit" /\ pc # "panic" /\ ~SubmitFailed)
    => /\ polls = nonterminal
              => /\ ~Returned
                 /\ result = None
                 /\ pc \in { "sleep", "status" }
                 /\ ~has_finished
                 /\ requests = << >>
       /\ pc \notin { "sleep", "status" }
              => \/ LastStatusFailed
                 \/ LastStatusIn({ "QueryStateFailed", "QueryStateCompleted",
                                   "QueryStateCancelled", "QueryStateExpired",
                                   "QueryStateCompletedPartial" })

C19_Witness ==
    /\ Orchestrator
    /\ polls = 2
    /\ nonterminal = 2
    /\ pc = "sleep"
    /\ result = None

(* C20: get_query_results does not detect a server regression: the offset  *)
(* of every request after the first is the next_offset of the answer       *)
(* before it, also when that is equal to or less than the offset just      *)
(* requested, and the rows of the answer are appended; as long as the last *)
(* answer of a non-peek run carries a next_offset, whatever it is, the run *)
(* has not returned and asks again.                                        *)
C20_RegressionFollowed ==
    /\ \A i \in 1..(Len(requests) - 1) :
           /\ pages[i].ok
           /\ is_some(pages[i].val.next_offset)
           /\ OffsetAsked(i + 1) = unwrap(pages[i].val.next_offset)
    /\ (/\ pages # << >>
        /\ pages[Len(pages)].ok
        /\ is_some(pages[Len(pages)].val.next_offset)
        /\ ~args.peak
        /\ ~(Len(pages) = 1 /\ ~pages[1].val.is_execution_finished)
        /\ ~encode_failed)
           => /\ pc = "next_page"
              /\ result = None
              /\ rows = ConcatRows(pages)

C20_Witness ==
    /\ Len(requests) = 3
    /\ OffsetAsked(2) = 1
    /\ OffsetAsked(3) = 1
    /\ pages[3].ok
    /\ is_some(pages[3].val.next_offset)
    /\ unwrap(pages[3].val.next_offset) = 0
    /\ Len(rows) = 3
    /\ pc = "next_page"

-----------------------------------------------------------------------------
\* the first results response decoded finished, without rows and without a
\* next_offset
FirstPageEmpty ==
    /\ pages # << >>
    /\ pages[1].ok
    /\ pages[1].val.is_execution_finished
    /\ pages[1].val.result.rows = << >>
    /\ pages[1].val.next_offset = << >>

(* C21: when the first results response is finished, has no rows and no    *)
(* next_offset, get_query_results has returned success with an empty row   *)
(* sequence and the metadata of that response, after exactly one request.  *)
C21_EmptyResultIsOk ==
    FirstPageEmpty
    => /\ ReturnedOk
       /\ unwrap(result).val.rows = << >>
       /\ unwrap(result).val.metadata = pages[1].val.result.metadata
       /\ Len(requests) = 1

C21_Witness ==
    /\ FirstPageEmpty
    /\ ~args.peak
    /\ server_total = 0
    /\ ReturnedOk

\* two requests differ in nothing but the value of offset
SameButOffset(r1, r2) ==
    /\ r1.path = r2.path
    /\ Len(r1.query) = Len(r2.query)
    /\ \A k \in 1..Len(r1.query) :
           /\ r1.query[k][1] = r2.query[k][1]
           /\ r1.query[k][1] # "offset" => r1.query[k][2] = r2.query[k][2]

(* C22: in one get_query_results run the offset is the only field of the   *)
(* page request that changes: the endpoint path, the target id, the limit, *)
(* the column projection, the filter and the ignore-max-datapoints flag    *)
(* are the same in every request of the run.                               *)
C22_OnlyOffsetChanges ==
    \A i \in 1..Len(requests) : SameButOffset(requests[1], requests[i])

C22_Witness ==
    /\ Len(requests) = 3
    /\ OffsetAsked(1) = 0
    /\ OffsetAsked(2) = 2
    /\ OffsetAsked(3) = 1

\* the status the submit response carried
SubmitStatus == unwrap(submit_reply).val.status

(* C27: execute_query_and_get_results_when_ready does not act on the       *)
(* status of the submit response: whatever it is, the run has slept one    *)
(* interval and fetched the status at least once before it returns a       *)
(* status error or asks for results, and the status error it returns is    *)
(* the one of a status fetch.                                              *)
C27_SubmitStatusNotActedOn ==
    (ExecuteEntry /\ is_some(submit_reply) /\ ~SubmitFailed)
    => /\ (Returned \/ requests # << >>
              \/ pc \in { "first_page", "next_page" })
              => (Len(sleeps) >= 1 /\ polls >= 1)
       /\ polls = 0 => (pc \in { "sleep", "status" } /\ result = None)
       /\ \A st \in ExecutionStatus :
              ReturnedErr(QueryStatusError(st)) => LastStatusIn({ st })

C27_Witness ==
    /\ ExecuteEntry
    /\ is_some(submit_reply)
    /\ ~SubmitFailed
    /\ SubmitStatus = "QueryStateFailed"
    /\ LastStatusIn({ "QueryStateCompleted" })
    /\ ReturnedOk

\* as C27_Witness, the submit saying Completed and the status fetch Failed
C27_WitnessCompleted ==
    /\ ExecuteEntry
    /\ is_some(submit_reply)
    /\ ~SubmitFailed
    /\ SubmitStatus = "QueryStateCompleted"
    /\ ReturnedErr(QueryStatusError("QueryStateFailed"))

-----------------------------------------------------------------------------
\* the responses of the run that carried a next_offset
Carrying == { i \in 1..Len(pages) : pages[i].ok /\ is_some(pages[i].val.next_offset) }

\* each request after the first asks for the next_offset of the response
\* before it, and the first asks for offset 0
CursorFollowsResponses ==
    /\ requests # << >> => OffsetAsked(1) = 0
    /\ \A i \in 1..(Len(requests) - 1) :
           /\ pages[i].ok
           /\ is_some(pages[i].val.next_offset)
           /\ OffsetAsked(i + 1) = unwrap(pages[i].val.next_offset)

(* C25 as stated: in a non-peek get_query_results run the first request    *)
(* has offset 0, each later request has the next_offset of the response    *)
(* before it, the number of requests is one plus the number of responses   *)
(* that carried a next_offset, and the run ends at the first response      *)
(* without next_offset.                                                    *)
C25_OnePlusCarrying ==
    (~args.peak /\ ~encode_failed)
    => /\ CursorFollowsResponses
       /\ Returned /\ requests # << >>
              => /\ Len(requests) = 1 + Cardinality(Carrying)
                 /\ Len(pages) \notin Carrying

(* C25 amended: the same for a run whose first response says the           *)
(* execution is finished; a first response that does not say so ends the   *)
(* run after that one request, whether it carries a next_offset or not.    *)
C25_OnePlusCarryingWhenFinished ==
    (~args.peak /\ ~encode_failed)
    => /\ CursorFollowsResponses
       /\ Returned /\ requests # << >>
              => IF pages[1].ok /\ ~pages[1].val.is_execution_finished
                 THEN Len(requests) = 1
                 ELSE /\ Len(requests) = 1 + Cardinality(Carrying)
                      /\ Len(pages) \notin Carrying

C25_Witness ==
    /\ ~args.peak
    /\ ReturnedOk
    /\ Len(requests) = 3
    /\ Carrying = { 1, 2 }
    /\ OffsetAsked(1) = 0
    /\ OffsetAsked(2) = 1
    /\ OffsetAsked(3) = 2

\* every response of the run so far was decoded
AllPagesOk == \A i \in 1..Len(pages) : pages[i].ok

(* C26: is_execution_finished is looked at on the first results response   *)
(* only: a later page that says false does not give QueryNotFinished; its  *)
(* rows are appended and its next_offset is followed like any other.       *)
C26_FinishedFlagOnlyOnFirstPage ==
    late_unfinished
    => /\ result # Some(Err(QueryNotFinished))
       /\ (AllPagesOk /\ ~encode_failed)
              => /\ rows = ConcatRows(pages)
                 /\ IF is_some(pages[Len(pages)].val.next_offset)
                    THEN pc = "next_page" /\ result = None
                    ELSE ReturnedOk /\ unwrap(result).val.rows = rows

C26_Witness ==
    /\ late_unfinished
    /\ Len(pages) = 3
    /\ ReturnedOk
    /\ Len(unwrap(result).val.rows) = 3

-----------------------------------------------------------------------------
(* The client against a server that keeps its promises, and scheduled      *)
(* fairly: the task of an invocation is polled again whenever it can go    *)
(* on (a sleep ends, a response or a failure arrives).                     *)

\* a response to a request at or past the end of the result set carries no
\* next_offset
OmitsNextAtTotal ==
    \A i \in 1..Len(pages) :
        (pages[i].ok /\ OffsetAsked(i) >= server_total)
        => pages[i].val.next_offset = << >>

\* every status fetch succeeds and the execution is reported terminal before
\* the polls explored run out; every next_offset goes forward and stops at
\* the total row count
ServerAsPromised ==
    /\ ~LastStatusFailed
    /\ nonterminal < MaxPolls
    /\ NoRegression
    /\ OmitsNextAtTotal

FairNext == Next /\ ServerAsPromised'

FairSpec == Init /\ [][FairNext]_vars /\ WF_vars(FairNext)

TerminalStatuses ==
    { "QueryStateFailed", "QueryStateCompleted", "QueryStateCancelled",
      "QueryStateExpired", "QueryStateCompletedPartial" }

\* in the poll loop with an api key a status fetch can succeed with
InPollLoop ==
    Orchestrator /\ pc \in { "sleep", "status" } /\ header_value_ok(api_key)

(* C28: when every status fetch succeeds and the execution is eventually   *)
(* reported terminal, every orchestrator run that entered its poll loop    *)
(* leaves it: it returns QueryStatusError or starts pagination, and it     *)
(* fetches no status after the first terminal one it saw.                  *)
C28_PollingEnds ==
    /\ InPollLoop ~> (Orchestrator /\ PollPhaseOver)
    /\ []((Orchestrator /\ PollPhaseOver)
            => /\ LastStatusIn(TerminalStatuses)
               /\ polls = nonterminal + 1
               /\ \/ ReturnedErr(QueryStatusError(unwrap(last_status).val.status))
                  \/ has_finished)
    /\ [][LastStatusIn(TerminalStatuses) => polls' = polls]_vars

C28_Witness ==
    /\ Orchestrator
    /\ PollPhaseOver
    /\ polls = 2
    /\ nonterminal = 1
    /\ ReturnedErr(QueryStatusError("QueryStateCancelled"))

(* C29: when every next_offset of the server is greater than the offset    *)
(* just requested and no next_offset is sent once the offset has reached   *)
(* the total row count, every non-peek get_query_results run ends after    *)
(* finitely many requests (at most one more than there are rows) and       *)
(* returns a QueryResult or an error.                                      *)
C29_PaginationEnds ==
    /\ (~args.peak /\ pc \in { "first_page", "next_page" }) ~> Returned
    /\ [](~args.peak => Len(requests) <= server_total + 1)

C29_Witness ==
    /\ ~args.peak
    /\ server_total = 2
    /\ Len(requests) = 3
    /\ OffsetAsked(3) = 2
    /\ ReturnedOk

-----------------------------------------------------------------------------
\* every record given is an object
AllObjects == \A r \in 1..Len(records) : records[r].type = "Object"

\* the members of the r-th record given
Members(r) == records[r].members

HasMember(r, key) == \E i \in 1..Len(Members(r)) : Members(r)[i][1] = key

(* C24: save_json_as_csv, given object records, writes one header row      *)
(* with the keys of the first record and then one data row per record in   *)
(* input order; a record without a header key has an empty cell in that    *)
(* column, and a key that is not in the header is not written.             *)
C24_CsvRows ==
    (csv_result = Some(Ok("()")) /\ records # << >> /\ AllObjects)
    => /\ Len(wtr) = 1 + Len(records)
       /\ Len(wtr[1]) = Len(Members(1))
       /\ \A i \in 1..Len(Members(1)) : wtr[1][i] = Members(1)[i][1]
       /\ \A r \in 1..Len(records) :
              /\ Len(wtr[r + 1]) = Len(wtr[1])
              /\ \A i \in 1..Len(wtr[1]) :
                     IF HasMember(r, wtr[1][i])
                     THEN \E m \in 1..Len(Members(r)) :
                              /\ Members(r)[m][1] = wtr[1][i]
                              /\ wtr[r + 1][i] = cell_text(Members(r)[m][2])
                     ELSE wtr[r + 1][i] = << >>

C24_Witness ==
    /\ csv_result = Some(Ok("()"))
    /\ Len(records) = 2
    /\ AllObjects
    /\ wtr = << << "a", "b" >>,
                << << "1", "7" >>, << "x" >> >>,
                << << >>, << "t", "r", "u", "e" >> >> >>
    /\ HasMember(2, "b")
    /\ ~HasMember(2, "a")

-----------------------------------------------------------------------------
\* the server the two invocations talk to: the one of ServerAsPromised,
\* which moreover answers a submit with Pending, serves one row a page in
\* offset order with the finished flag set, and whose answers, when they
\* arrive, decode
SteadyServer ==
    /\ ServerAsPromised
    /\ is_some(submit_reply)
           => \/ submit_reply = Some(Err(RequestError))
              \/ /\ unwrap(submit_reply).ok
                 /\ unwrap(submit_reply).val.status = "QueryStatePending"
    /\ ~late_unfinished
    /\ \A i \in 1..Len(pages) :
           \/ pages[i] = Err(RequestError)
           \/ /\ pages[i].ok
              /\ is_some(pages[i].val.next_offset)
                     => unwrap(pages[i].val.next_offset) = OffsetAsked(i) + 1

\* two invocations against that server, in any interleaving
ConcurrentNext == (Next \/ Switch) /\ SteadyServer'

ConcurrentSpec == InitConcurrent /\ [][ConcurrentNext]_vars

\* the running invocation is where it would be had it run alone on the
\* responses it got: its rows are those of its own pages, its cursor the
\* next_offset of its own last response, its id and its poll progress its own
AsIfAlone ==
    /\ (AllPagesOk /\ ~ReturnedErr(QueryNotFinished))
           => rows = ConcatRows(pages)
    /\ (~args.peak /\ ~encode_failed) => CursorFollowsResponses
    /\ is_some(params) /\ requests # << >> /\ ~encode_failed
           => get_offset(unwrap(params)) = OffsetAsked(Len(requests))
    /\ execution_id =
           CASE args.entry = "get_query_results" -> args.id
             [] args.entry = "get_query_results_when_ready" ->
                    args.execution_id
             [] OTHER -> IF is_some(submit_reply) /\ ~SubmitFailed
                         THEN SubmitId ELSE << >>
    /\ is_some(polled_id) => polled_id = Some(execution_id)
    /\ Orchestrator
           => /\ Len(sleeps) = polls + (IF pc = "status" THEN 1 ELSE 0)
              /\ nonterminal =
                     polls - (IF PollPhaseOver /\ polls >= 1 THEN 1 ELSE 0)

\* a step either hands the processor over, both invocations keeping their
\* locals, or is a step of the running invocation that leaves the locals of
\* the other one alone; the client and the server data are never written
StepsKeepApart ==
    /\ \/ other' = Some(TaskState) /\ TaskState' = unwrap(other)
       \/ other' = other
    /\ api_key' = api_key
    /\ server_total' = server_total
    /\ server_page' = server_page

(* C23: two invocations on one client are independent: under every        *)
(* interleaving each one's offset cursor, accumulated rows, execution id   *)
(* and poll progress are what they would be had it run alone on the        *)
(* responses it got, and no step of one changes state the other reads.     *)
C23_InvocationsIndependent ==
    /\ [](AsIfAlone)
    /\ [][StepsKeepApart]_vars

C23_Witness ==
    /\ is_some(other)
    /\ ReturnedOk
    /\ Len(requests) = 2
    /\ Len(rows) = 2
    /\ unwrap(other).result # None
    /\ unwrap(other).result[1].ok
    /\ Len(unwrap(other).requests) = 3
    /\ Len(unwrap(other).rows) = 2
    /\ unwrap(other).polls = 2
    /\ args.entry = "get_query_results"
    /\ unwrap(other).args.entry = "execute_query_and_get_results_when_ready"

====
